---- MODULE Spec2Model ----
(***************************************************************************)
(* The Alert entity of homeassistant/components/alert.py as a state        *)
(* machine: one Alert instance, the point-in-time timer service it arms,   *)
(* and the handlers that touch its fields (the watched-entity listener,    *)
(* the timer callback and the three service commands).                     *)
(*                                                                         *)
(* Every handler is a coroutine.  A coroutine of alert.py gives up control *)
(* only inside Alert._send_message (line 252) and inside                   *)
(* async_update_ha_state (lines 259, 265), which is the last statement of  *)
(* its handler.  Line 235 and line 248 name `_send_message` without        *)
(* `self.`: the name is looked up in the function's scopes, the module's   *)
(* globals and the builtins, none of which binds it, so the call raises    *)
(* NameError before Alert._send_message is entered.  Each handler          *)
(* therefore runs to its end, or to the statement that raises, in one      *)
(* step; the assignments made before a raise stay.                         *)
(***************************************************************************)
EXTENDS Integers, Sequences, FiniteSets, TLC

\* Longest configured repeat list.
MaxRepeat == 3
\* Timer handles the timer service can have in use at once.
MaxTimers == 2

\* Python's None as the value of _cancel (handles are 1, 2, ...).
None == 0

\* Python's None as the value of a message argument.
NoMessage == "None"

Handles == 1..MaxTimers

STATE_ON == "on"
STATE_OFF == "off"
STATE_IDLE == "idle"

\* The states the watched entity reports: the alert state and two others.
WatchedStates == {STATE_ON, STATE_OFF, "unavailable"}

\* The names alert.py binds at module level (what a bare name resolves to).
ModuleGlobals ==
    {"asyncio", "datetime", "timedelta", "logging", "vol", "ATTR_MESSAGE",
     "DOMAIN_NOTIFY", "CONF_ENTITY_ID", "STATE_IDLE", "CONF_NAME",
     "CONF_STATE", "STATE_ON", "STATE_OFF", "SERVICE_TURN_ON",
     "SERVICE_TURN_OFF", "SERVICE_TOGGLE", "ATTR_ENTITY_ID", "ToggleEntity",
     "service", "event", "cv", "_LOGGER", "DOMAIN", "ENTITY_ID_FORMAT",
     "CONF_CAN_ACK", "CONF_NOTIFIERS", "CONF_REPEAT", "CONF_SKIP_FIRST",
     "CONF_MESSAGE", "CONF_DONE_MESSAGE", "DEFAULT_CAN_ACK",
     "DEFAULT_SKIP_FIRST", "ALERT_SCHEMA", "CONFIG_SCHEMA",
     "ALERT_SERVICE_SCHEMA", "is_on", "async_setup", "Alert"}

\* The repeat lists an Alert is built with: 5, 10, ... minutes.
RepeatLists == {[i \in 1..n |-> 5 * i] : n \in 1..MaxRepeat}

\* The notifier lists an Alert is built with: one notifier, or two.
NotifierLists == {<<"notifier_a">>, <<"notifier_a", "notifier_b">>}

\* The repeat lists ALERT_SCHEMA (line 41: a list of floats, of any length)
\* and __init__ (line 145) let through: the empty list too.
AcceptedRepeatLists == RepeatLists \cup {<<>>}

\* The notifier lists ALERT_SCHEMA (line 46: cv.ensure_list) and __init__
\* (line 141) let through: the empty list too.
AcceptedNotifierLists == NotifierLists \cup {<<>>}

\* What done_message can be: absent, the plain string the schema yields
\* (cv.string), or a template object.
DoneMessages == {NoMessage, "str", "template"}

\* What message can be: absent or a template (cv.template).
Messages == {NoMessage, "template"}

VARIABLES
    cfg,                \* the constructor's arguments, fixed after __init__
    firing,             \* self._firing
    ack,                \* self._ack
    next_delay,         \* self._next_delay
    cancel,             \* self._cancel: None or the last handle armed
    send_done_message,  \* self._send_done_message
    armed,              \* timer service: handles armed, not expired, not cancelled
    queued,             \* timer service: handles expired whose callback has not run
    stale,              \* timer service: handles in use armed in an episode
                        \*   that has ended since
    delay,              \* the delay (minutes) of the last timer armed
    ep,                 \* the current episode: timers armed (counted up to
                        \*   the length of the repeat list), notification
                        \*   cycles entered and cycles that dispatched (0 or 1)
    calls,              \* notify service calls made by the last handler, each
                        \*   with whether the notifier delivered it
    exc,                \* how the last handler ended: "none" or the exception
    cycle,              \* whether the last handler entered the notification
                        \*   cycle of _notify (lines 227-235)
    change_to,          \* the state the last handler was told of, when it was
                        \*   watched_entity_change; "none" otherwise
    op,                 \* the last handler run
    pre,                \* the Alert's fields before the last handler
    prevToggle          \* whether the handler before the last one was
                        \*   async_toggle

vars == <<cfg, firing, ack, next_delay, cancel, send_done_message, armed,
          queued, stale, delay, ep, calls, exc, cycle, change_to, op, pre,
          prevToggle>>

Min(a, b) == IF a < b THEN a ELSE b

NoEpisode == [armed |-> 0, cycles |-> 0, notified |-> 0]

\* The handler's working state: the Alert's fields, the timer service, what
\* the handler has done so far, and the notifiers whose delivery fails while
\* it runs.
Self ==
    [firing |-> firing, ack |-> ack, next_delay |-> next_delay,
     cancel |-> cancel, send_done_message |-> send_done_message,
     armed |-> armed, queued |-> queued, stale |-> stale, delay |-> delay,
     ep |-> ep,
     calls |-> <<>>, exc |-> "none", cycle |-> FALSE, failing |-> {}]

\* The Alert's fields, its armed timers and the episode's bookkeeping, as the
\* claims compare them before and after a handler.
Fields(s) ==
    [firing |-> s.firing, ack |-> s.ack, next_delay |-> s.next_delay,
     cancel |-> s.cancel, send_done_message |-> s.send_done_message,
     armed |-> s.armed, ep |-> s.ep]

Raise(s, e) == [s EXCEPT !.exc = e]

----------------------------------------------------------------------------
(* The timer service: event.async_track_point_in_time and its handles.     *)

\* The handle the service hands out next.
FreeHandle(s) ==
    CHOOSE h \in Handles :
        /\ h \notin s.armed \cup s.queued
        /\ \A g \in Handles : g < h => g \in s.armed \cup s.queued

\* async_track_point_in_time(hass, self._notify, now + delay): arm a handle.
async_track_point_in_time(s, d) ==
    LET h == FreeHandle(s)
    IN [s EXCEPT !.armed = @ \cup {h}, !.delay = d, !.cancel = h]

\* Calling a handle: an armed timer is removed; one that already expired
\* (callback queued or run) is left as it is.
CancelHandle(s, h) == [s EXCEPT !.armed = @ \ {h}]

----------------------------------------------------------------------------
(* The Alert's methods, lines 167-271.                                     *)

\* Alert.state
state(s) ==
    IF s.firing
    THEN IF s.ack THEN STATE_OFF ELSE STATE_ON
    ELSE STATE_IDLE

\* template.async_render(): the rendered text of a template.
async_render(kind) == IF kind = "message" THEN "message text" ELSE "done text"

\* Alert._send_message: one service call per notifier, in list order.
_send_message(s, message) ==
    [s EXCEPT !.calls = @ \o [i \in 1..Len(cfg.notifiers) |->
                                 [target |-> cfg.notifiers[i],
                                  message |-> message,
                                  delivered |-> cfg.notifiers[i] \notin s.failing]]]

\* The bare call `_send_message(message)` of lines 235 and 248.
CallSendMessage(s, message) ==
    IF "_send_message" \in ModuleGlobals
    THEN _send_message(s, message)
    ELSE Raise(s, "NameError")

\* _schedule_notify without the clamp of line 219: the index always advances.
_schedule_notify_unclamped(s) ==
    IF s.next_delay >= Len(cfg.repeat)
    THEN Raise(s, "IndexError")
    ELSE LET s1 == async_track_point_in_time(s, cfg.repeat[s.next_delay + 1])
         IN [s1 EXCEPT !.next_delay = s.next_delay + 1,
                       !.ep.armed = Min(@ + 1, Len(cfg.repeat))]

\* Alert._schedule_notify
_schedule_notify(s) ==
    IF s.next_delay >= Len(cfg.repeat)
    THEN Raise(s, "IndexError")
    ELSE LET s1 == async_track_point_in_time(s, cfg.repeat[s.next_delay + 1])
         IN [s1 EXCEPT !.next_delay = Min(s.next_delay + 1, Len(cfg.repeat) - 1),
                       !.ep.armed = Min(@ + 1, Len(cfg.repeat))]

\* The message of an alert notification: the rendered template, or the name.
AlertMessage ==
    IF cfg.message # NoMessage THEN async_render("message") ELSE cfg.name

\* _notify without the test of _ack at line 226: every callback of a firing
\* alert notifies.
_notify_ignores_ack(s) ==
    IF ~s.firing
    THEN s
    ELSE LET s1 == [s EXCEPT !.send_done_message = TRUE,
                             !.ep.cycles = 1, !.cycle = TRUE]
             s2 == CallSendMessage(s1, AlertMessage)
         IN IF s2.exc # "none"
            THEN s2
            ELSE _schedule_notify([s2 EXCEPT !.ep.notified = 1])

\* Alert._notify
_notify(s) ==
    IF ~s.firing
    THEN s
    ELSE IF ~s.ack
         THEN LET s1 == [s EXCEPT !.send_done_message = TRUE,
                                  !.ep.cycles = 1, !.cycle = TRUE]
                  s2 == CallSendMessage(s1, AlertMessage)
              IN IF s2.exc # "none"
                 THEN s2
                 ELSE _schedule_notify([s2 EXCEPT !.ep.notified = 1])
         ELSE _schedule_notify(s)

\* Alert._notify_done_message
_notify_done_message(s) ==
    LET s1 == [s EXCEPT !.send_done_message = FALSE]
    IN IF cfg.done_message = NoMessage
       THEN s1
       ELSE IF cfg.done_message = "str"
            THEN Raise(s1, "AttributeError")
            ELSE CallSendMessage(s1, async_render("done"))

\* begin_alerting without line 192: the acknowledgement is kept.
begin_alerting_keeps_ack(s) ==
    LET s1 == [s EXCEPT !.firing = TRUE, !.next_delay = 0, !.ep = NoEpisode]
    IN IF ~cfg.skip_first
       THEN _notify(s1)
       ELSE _schedule_notify(s1)

\* Alert.begin_alerting
begin_alerting(s) ==
    LET s1 == [s EXCEPT !.ack = FALSE, !.firing = TRUE, !.next_delay = 0,
                        !.ep = NoEpisode]
    IN IF ~cfg.skip_first
       THEN _notify(s1)
       ELSE _schedule_notify(s1)

\* Alert.end_alerting
end_alerting(s) ==
    IF s.cancel = None
    THEN Raise(s, "TypeError")
    ELSE LET s1 == CancelHandle(s, s.cancel)
             s2 == [s1 EXCEPT !.ack = FALSE, !.firing = FALSE,
                              !.stale = s1.armed \cup s1.queued]
         IN IF s2.send_done_message
            THEN _notify_done_message(s2)
            ELSE s2

\* watched_entity_change without the test of _firing at line 184: every
\* change to the alert state begins alerting.
watched_entity_change_rebegins(s, to_state) ==
    LET s1 == IF to_state = cfg.state
              THEN begin_alerting(s)
              ELSE s
    IN IF s1.exc # "none"
       THEN s1
       ELSE IF to_state # cfg.state /\ s1.firing
            THEN end_alerting(s1)
            ELSE s1

\* Alert.watched_entity_change
watched_entity_change(s, to_state) ==
    LET s1 == IF to_state = cfg.state /\ ~s.firing
              THEN begin_alerting(s)
              ELSE s
    IN IF s1.exc # "none"
       THEN s1
       ELSE IF to_state # cfg.state /\ s1.firing
            THEN end_alerting(s1)
            ELSE s1

\* async_turn_on that also runs a notification at once.
async_turn_on_renotifies(s) == _notify([s EXCEPT !.ack = FALSE])

\* Alert.async_turn_on
async_turn_on(s) == [s EXCEPT !.ack = FALSE]

\* Alert.async_turn_off
async_turn_off(s) == [s EXCEPT !.ack = TRUE]

\* async_toggle without its test of _ack: it always acknowledges.
async_toggle_always_off(s) == async_turn_off(s)

\* Alert.async_toggle
async_toggle(s) ==
    IF s.ack
    THEN async_turn_on(s)
    ELSE async_turn_off(s)

----------------------------------------------------------------------------
(* The state machine.                                                      *)

\* The arguments of Alert.__init__, with repeat and notifiers drawn from the
\* given sets.
Configs(repeats, notifiers) ==
    [name : {"name"}, state : {STATE_ON}, repeat : repeats,
     skip_first : BOOLEAN, message : Messages, done_message : DoneMessages,
     notifiers : notifiers]

\* Lines 146-151, and the timer service and the bookkeeping at rest.
InitFields ==
    /\ firing = FALSE
    /\ ack = FALSE
    /\ next_delay = 0
    /\ cancel = None
    /\ send_done_message = FALSE
    /\ armed = {}
    /\ queued = {}
    /\ stale = {}
    /\ delay = 0
    /\ ep = NoEpisode
    /\ calls = <<>>
    /\ exc = "none"
    /\ cycle = FALSE
    /\ change_to = "none"
    /\ op = "init"
    /\ pre = Fields(Self)
    /\ prevToggle = FALSE

\* Alert.__init__, its parameters taken by name.  (async_setup, lines 83-85,
\* passes them in another order than __init__ declares them.)
Init ==
    /\ cfg \in Configs(RepeatLists, NotifierLists)
    /\ InitFields

\* Alert.__init__ on every definition the schema accepts.
InitCfg ==
    /\ cfg \in Configs(AcceptedRepeatLists, AcceptedNotifierLists)
    /\ InitFields

\* The state after a handler that ended in s, but for change_to; handles no
\* longer in use are forgotten.
Done(name, s) ==
    /\ firing' = s.firing
    /\ ack' = s.ack
    /\ next_delay' = s.next_delay
    /\ cancel' = s.cancel
    /\ send_done_message' = s.send_done_message
    /\ armed' = s.armed
    /\ queued' = s.queued
    /\ stale' = s.stale \cap (s.armed \cup s.queued)
    /\ delay' = s.delay
    /\ ep' = s.ep
    /\ calls' = s.calls
    /\ exc' = s.exc
    /\ cycle' = s.cycle
    /\ op' = name
    /\ pre' = Fields(Self)
    /\ prevToggle' = (op = "toggle")
    /\ UNCHANGED cfg

\* The state after a handler other than watched_entity_change.
Finish(name, s) ==
    /\ Done(name, s)
    /\ change_to' = "none"

\* The notifiers of the Alert, as a set.
Targets == {cfg.notifiers[i] : i \in 1..Len(cfg.notifiers)}

\* The watched entity changes state and the listener runs.  A change that
\* begins an episode needs a free timer handle.
WatchedEntityChange ==
    \E to \in WatchedStates, f \in SUBSET Targets :
        /\ (to = cfg.state /\ ~firing) =>
               Cardinality(armed \cup queued) < MaxTimers
        /\ Done("change", watched_entity_change([Self EXCEPT !.failing = f], to))
        /\ change_to' = to

\* The point in time of an armed timer is reached: the service removes the
\* listener and queues the callback.
TimerExpire ==
    \E h \in armed :
        /\ armed' = armed \ {h}
        /\ queued' = queued \cup {h}
        /\ calls' = <<>>
        /\ exc' = "none"
        /\ cycle' = FALSE
        /\ change_to' = "none"
        /\ op' = "expire"
        /\ pre' = Fields(Self)
        /\ prevToggle' = (op = "toggle")
        /\ UNCHANGED <<cfg, firing, ack, next_delay, cancel, send_done_message,
                       stale, delay, ep>>

\* A queued timer callback runs Alert._notify.
TimerCallback ==
    \E h \in queued, f \in SUBSET Targets :
        Finish(IF h \in stale THEN "stale_notify" ELSE "notify",
               _notify([Self EXCEPT !.queued = @ \ {h}, !.failing = f]))

\* The alert.turn_on service.
TurnOn ==
    /\ op' = "turn_on"
    /\ Finish("turn_on", async_turn_on(Self))

\* The alert.turn_off service.
TurnOff ==
    /\ op' = "turn_off"
    /\ Finish("turn_off", async_turn_off(Self))

\* The alert.toggle service.
Toggle ==
    /\ op' = "toggle"
    /\ Finish("toggle", async_toggle(Self))

Next ==
    \/ WatchedEntityChange
    \/ TimerExpire
    \/ TimerCallback
    \/ TurnOn
    \/ TurnOff
    \/ Toggle

Spec == Init /\ [][Next]_vars

\* The same handlers on every Alert the schema accepts.
SpecCfg == InitCfg /\ [][Next]_vars

----------------------------------------------------------------------------
(* What the claims speak about.                                            *)

\* The last handler made exactly one call per notifier, in list order, each
\* carrying message m.
OneCycle(m) ==
    /\ Len(calls) = Len(cfg.notifiers)
    /\ \A i \in 1..Len(calls) :
          calls[i].target = cfg.notifiers[i] /\ calls[i].message = m

\* The last handler was a watched-entity change that began an episode.
Began == op = "change" /\ ~pre.firing /\ firing

\* The last handler was a watched-entity change that ended an episode.
Ended == op = "change" /\ pre.firing /\ ~firing

\* The last handler was a timer callback (of this or of an ended episode).
Callback == op \in {"notify", "stale_notify"}

\* The last handler was one of the three service commands.
Command == op \in {"turn_on", "turn_off", "toggle"}

\* The last handler armed exactly one timer.
ArmedOne == Cardinality(armed \ pre.armed) = 1 /\ cancel \in armed \ pre.armed

----------------------------------------------------------------------------
(* The claims.                                                             *)

\* C1: in every reachable state, acknowledged = true implies firing = true.
C1_AckImpliesFiring == ack => firing

\* C2: in every reachable state the Alert has at most one outstanding timer
\* (armed, not yet expired, not cancelled).
C2_AtMostOneTimer == Cardinality(armed) <= 1

C4_AckSuppresses ==
    (op = "notify" /\ pre.firing) =>
        IF pre.ack
        THEN /\ calls = <<>>
             /\ ArmedOne
             /\ next_delay = Min(pre.next_delay + 1, Len(cfg.repeat) - 1)
        ELSE OneCycle(AlertMessage)

\* C5: the callback of a timer armed in an episode that has ended since
\* dispatches nothing and arms no timer, whenever it runs.
C5_StaleCallback ==
    op = "stale_notify" => calls = <<>> /\ armed = pre.armed

\* C6: from Idle, a change to the trigger value leaves the alert
\* Firing-Unacknowledged and, with skip_first false, one notification cycle
\* has been dispatched and exactly one timer armed when the handler returns.
C6_Trigger ==
    Began =>
        /\ state(Self) = STATE_ON
        /\ ~cfg.skip_first => OneCycle(AlertMessage) /\ ArmedOne /\ exc = "none"

\* C7: the n-th timer armed in an episode uses repeat[min(n, len - 1)]; with
\* skip_first nothing is dispatched at trigger time, and the callback of the
\* episode's first timer dispatches the first notification and arms a timer
\* with repeat[1] (the last interval when there is only one).
C7_Intervals ==
    /\ ((Began \/ Callback) /\ ArmedOne) =>
           delay = cfg.repeat[Min(ep.armed - 1, Len(cfg.repeat) - 1) + 1]
    /\ (Began /\ cfg.skip_first) =>
           calls = <<>> /\ delay = cfg.repeat[1]
    /\ (cfg.skip_first /\ op = "notify" /\ pre.firing /\ ~pre.ack
        /\ pre.ep.armed = 1 /\ pre.ep.cycles = 0) =>
           /\ OneCycle(AlertMessage)
           /\ ArmedOne
           /\ delay = cfg.repeat[Min(1, Len(cfg.repeat) - 1) + 1]

\* C8: in a notification cycle every notifier is called whether or not the
\* delivery to an earlier one fails, the next timer is armed, and firing and
\* acknowledged stay as they were.
C8_FailureIsolated ==
    ((Callback /\ pre.firing /\ ~pre.ack) \/ (Began /\ ~cfg.skip_first)) =>
        /\ OneCycle(AlertMessage)
        /\ ArmedOne
        /\ firing /\ ~ack

\* C9: a command issued while the alert is Idle leaves it Idle with
\* acknowledged = false, firing = false, no timer armed, nothing dispatched,
\* and ends without an exception.
C9_IdleCommand ==
    (Command /\ ~pre.firing) =>
        /\ ~firing /\ ~ack
        /\ armed = pre.armed
        /\ calls = <<>>
        /\ exc = "none"

\* C10: a toggle that directly follows a toggle leaves acknowledged, firing,
\* the timers, the handle and the interval index as they were before the
\* first of the two.
C10_ToggleTwice ==
    [][(op = "toggle" /\ op' = "toggle") =>
          /\ ack' = pre.ack
          /\ firing' = pre.firing
          /\ armed' = pre.armed
          /\ cancel' = pre.cancel
          /\ next_delay' = pre.next_delay]_vars

\* C10, the case: two toggles in a row during an episode with a timer armed.
C10_Witness ==
    /\ op = "toggle" /\ prevToggle
    /\ firing /\ armed # {}

\* C11: a definition with an empty repeat list or an empty notifier list is
\* rejected before the watcher is registered: no handler ever runs on such an
\* Alert, and none fails on indexing the repeat list.
C11_EmptyRejected ==
    /\ op # "init" => Len(cfg.repeat) > 0 /\ Len(cfg.notifiers) > 0
    /\ exc # "IndexError"

\* C12: in every reachable state no timer is armed while firing is false; a
\* notification cycle that outlasts its episode arms none.
C12_NoTimerWhileIdle == ~firing => armed = {}

\* C13: when no timer is pending, as when the episode has armed none yet,
\* end_alerting does not fail on cancelling (the call of _cancel, line 206)
\* and leaves the alert Idle.
C13_EndWithoutTimer ==
    (op = "change" /\ change_to # cfg.state /\ pre.firing /\ pre.armed = {}) =>
        exc # "TypeError" /\ ~firing

\* C15: after every beginAlerting and every timer callback that leaves the
\* alert firing, exactly one timer is armed, acknowledged or not: the repeat
\* clock does not stop while the episode lasts.
C15_ClockKeepsRunning ==
    (firing /\ (Began \/ (Callback /\ pre.firing))) => Cardinality(armed) = 1

\* C14: a change to the alert state while already firing dispatches nothing,
\* arms no timer and leaves acknowledged and the interval index as they were;
\* a change to another state while Idle dispatches nothing, cancels nothing
\* and leaves every field as it was.
C14_DuplicateChange ==
    /\ (op = "change" /\ change_to = cfg.state /\ pre.firing) =>
           /\ calls = <<>> /\ exc = "none"
           /\ armed = pre.armed /\ cancel = pre.cancel
           /\ firing /\ ack = pre.ack /\ next_delay = pre.next_delay
    /\ (op = "change" /\ change_to # cfg.state /\ ~pre.firing) =>
           /\ calls = <<>> /\ exc = "none"
           /\ Fields(Self) = pre

\* C14, the case: the alert state is reported again during an acknowledged
\* episode that has a timer armed.
C14_Witness ==
    /\ op = "change" /\ change_to = cfg.state
    /\ pre.firing /\ pre.ack /\ pre.armed # {}

\* C16: turn_on, turn_off and toggle change only acknowledged: they dispatch
\* nothing, arm and cancel no timer, and leave firing, the interval index and
\* the done-message flag as they were.
C16_CommandsOnlyAck ==
    Command =>
        /\ calls = <<>> /\ exc = "none" /\ ~cycle
        /\ armed = pre.armed /\ cancel = pre.cancel
        /\ firing = pre.firing
        /\ next_delay = pre.next_delay
        /\ send_done_message = pre.send_done_message
        /\ ep = pre.ep

\* C16, the case: the alert is un-acknowledged during an episode with a
\* timer armed.
C16_Witness ==
    /\ op = "turn_on" /\ pre.ack /\ ~ack
    /\ firing /\ armed # {}

\* C17: acknowledged is false right after every transition into firing and
\* right after every transition out of firing, whatever the commands before.
C17_AckClearedOnTransition == (Began \/ Ended) => ~ack

\* C17, the case: an episode begins on an Alert whose _ack a command had set.
C17_Witness == Began /\ pre.ack

\* C18: with a non-empty repeat list, 0 <= next_delay <= len(repeat) - 1 in
\* every reachable state; the index never decreases within an episode, and
\* only beginAlerting resets it.
C18_IndexClamped ==
    /\ 0 <= next_delay /\ next_delay <= Len(cfg.repeat) - 1
    /\ next_delay < pre.next_delay => Began

\* C18, the case: the index stood at the last interval of a list of three,
\* and a new episode has reset it and armed its first timer.
C18_Witness ==
    /\ Began /\ pre.next_delay = Len(cfg.repeat) - 1 /\ Len(cfg.repeat) = 3
    /\ next_delay = 1

\* C20: a notification cycle is entered only with firing true and
\* acknowledged false: a timer callback enters it only when it finds the
\* alert so, and no alert message is dispatched otherwise.
C20_CycleOnlyWhenOn ==
    /\ cycle => firing /\ ~ack /\ (Began \/ (Callback /\ pre.firing /\ ~pre.ack))
    /\ (calls # <<>> /\ ~Ended) => cycle

\* C20, the case: a timer callback found the alert firing and not
\* acknowledged and entered the cycle.
C20_Witness == cycle /\ Callback /\ pre.firing /\ ~pre.ack

====
